---- MODULE Spec2Model ----
(***************************************************************************)
(* A model of the news post-processing pipeline of news_scraper.py:        *)
(* _dedupe, _kst_calendar_window, _parse_dt_utc, _extract_json_array,      *)
(* search_news and search_news_multi, and of its use of the agent service: *)
(* _ensure_agent and _run_and_wait.                                        *)
(*                                                                         *)
(* Text is modelled as a sequence of tokens (a token is a TLA+ string), so *)
(* that two texts are equal exactly when their token sequences are equal.  *)
(* Instants are integers: seconds since 1970-01-01T00:00:00Z.              *)
(***************************************************************************)
EXTENDS Integers, Sequences, FiniteSets, TLC

VARIABLES
  pc,              \* position of the operation being run
  freshness,       \* the freshness label given to the call
  now,             \* the instant the clock reads
  tzLocal,         \* offset of the host's local zone
  dd_in,           \* _dedupe: the argument list
  dd_out,          \* _dedupe: the list returned for dd_in
  dd_twice,        \* _dedupe: the list returned for dd_out
  win,             \* _kst_calendar_window: the pair returned
  text,            \* _extract_json_array: the argument
  extracted,       \* _extract_json_array: the value returned
  data,            \* search_news: the array parsed from the agent's response
  sn,              \* search_news: its lists and the list it returns (kept)
  q,               \* search_news_multi: the query
  count,           \* search_news_multi: count
  target_results,  \* search_news_multi: target_results
  max_rounds,      \* search_news_multi: max_rounds
  rounds,          \* search_news_multi: the candidate variants
  uniq_rounds,     \* search_news_multi: the variants left to run
  round,           \* search_news_multi: index of the next round
  all_items,       \* search_news_multi: the accumulator
  attempted,       \* search_news_multi: the rounds run so far
  result,          \* search_news_multi: the list returned
  ui,              \* the search page: the branch its submit handler ended in
  runs,            \* search_news: the _run_and_wait calls made, in order
  raw_json,        \* search_news: the array text extracted, if any
  r_status,        \* _run_and_wait: the status the last poll read
  elapsed,         \* _run_and_wait: time.time() - start, in tenths of a second
  checked,         \* _run_and_wait: elapsed at the last timeout check
  polls,           \* _run_and_wait: the number of polls made
  outcome,         \* _run_and_wait: how the call ended, "" while it runs
  agent_cache,     \* _ensure_agent: the module's _agent_cache
  agents,          \* _ensure_agent: the agents the service lists, in order
  ops,             \* _ensure_agent: the create and update calls made
  dt_str,          \* _parse_dt_utc: the argument
  parsed           \* _parse_dt_utc: the value returned

envVars == <<freshness, now, tzLocal>>
dedupeVars == <<dd_in, dd_out, dd_twice>>
windowVars == <<win>>
extractVars == <<text, extracted>>
searchVars == <<data, sn>>
multiVars == <<q, count, target_results, max_rounds, rounds, uniq_rounds,
               round, all_items, attempted, result, ui>>
callVars == <<runs, raw_json>>
runVars == <<r_status, elapsed, checked, polls, outcome>>
agentVars == <<agent_cache, agents, ops>>
parseVars == <<dt_str, parsed>>
serviceVars == <<callVars, runVars, agentVars, parseVars>>
vars == <<pc, envVars, dedupeVars, windowVars, extractVars, searchVars, multiVars,
          serviceVars>>

(***************************************************************************)
(* Generic helpers                                                         *)
(***************************************************************************)
\* Sequences over S of length at most n.
BoundedSeq(S, n) == UNION {[1..k -> S] : k \in 0..n}

\* The subsequence of s whose elements satisfy Test, order kept.
RECURSIVE SelectIdx(_, _, _)
SelectIdx(s, Keep(_), i) ==
  IF i > Len(s) THEN <<>>
  ELSE (IF Keep(i) THEN <<s[i]>> ELSE <<>>) \o SelectIdx(s, Keep, i + 1)

(***************************************************************************)
(* URLs.  A URL text is [base, qs]: base is everything but the query       *)
(* (scheme, host, path), qs the query as a sequence of [k, v] parameters   *)
(* in the order written.  BadBase is a base on which urlparse raises       *)
(* ValueError (an unbalanced "[" in the host).                             *)
(***************************************************************************)
BadBase == "http://[bad/x"

\* str.lower() on the parameter names of the model.
LowerName(k) ==
  CASE k = "UTM_medium" -> "utm_medium"
    [] k = "Utm" -> "utm"
    [] OTHER -> k

\* k.lower().startswith("utm")
IsUtm(k) == LowerName(k) \in {"utm_source", "utm_medium", "utm"}

\* The text of a query: k=v joined by "&".
RECURSIVE QueryText(_)
QueryText(qs) ==
  IF qs = <<>> THEN <<>>
  ELSE <<qs[1].k, "=", qs[1].v>>
       \o (IF Len(qs) > 1 THEN <<"&">> ELSE <<>>)
       \o QueryText(Tail(qs))

\* The URL as written.
RawUrl(u) ==
  (IF u.base = "" THEN <<>> ELSE <<u.base>>)
  \o (IF u.qs = <<>> THEN <<>> ELSE <<"?">> \o QueryText(u.qs))

\* parse_qs: blank-valued parameters are dropped, and the values of a name
\* are grouped under the first occurrence of that name.
ParseQs(qs) ==
  LET nonblank == SelectSeq(qs, LAMBDA p : p.v # "")
      first(i) == \A j \in 1..(i - 1) : nonblank[j].k # nonblank[i].k
      names == SelectIdx(nonblank, first, 1)
  IN [i \in 1..Len(names) |->
        [k |-> names[i].k,
         vs |-> LET same == SelectSeq(nonblank, LAMBDA p : p.k = names[i].k)
                IN [j \in 1..Len(same) |-> same[j].v]]]

\* urlencode(qs, doseq=True): one k=v per value, names in dict order.
RECURSIVE UrlEncode(_)
UrlEncode(groups) ==
  IF groups = <<>> THEN <<>>
  ELSE [i \in 1..Len(groups[1].vs) |-> [k |-> groups[1].k, v |-> groups[1].vs[i]]]
       \o UrlEncode(Tail(groups))

\* Mutant of NormUrl: only lower-case utm names are recognised.
NormUrlCaseSensitive(u) ==
  IF u.base = BadBase THEN RawUrl(u)
  ELSE LET kept == SelectSeq(ParseQs(u.qs),
                             LAMBDA g : g.k \notin {"utm_source", "utm_medium", "utm"})
       IN RawUrl([base |-> u.base, qs |-> UrlEncode(kept)])

\* _dedupe._norm_url
NormUrl(u) ==
  IF u.base = BadBase THEN RawUrl(u)
  ELSE LET kept == SelectSeq(ParseQs(u.qs), LAMBDA g : ~IsUtm(g.k))
       IN RawUrl([base |-> u.base, qs |-> UrlEncode(kept)])

(***************************************************************************)
(* Titles.  A title text is [core, upper, pad]: core is the text in lower  *)
(* case without surrounding blanks, upper says it is written in capitals,  *)
(* pad that it is written with surrounding blanks.                         *)
(***************************************************************************)
\* title.strip().lower()
TitleKey(t) == IF t.core = "" THEN <<>> ELSE <<t.core>>

\* The dedup key of an item:  _norm_url(url) or title.strip().lower()
DedupKey(it) ==
  IF NormUrl(it.url) # <<>> THEN NormUrl(it.url) ELSE TitleKey(it.title)

\* Mutant of Dedupe: the last item carrying a key is kept, not the first.
DedupeKeepLast(items) ==
  SelectIdx(items,
            LAMBDA i : /\ DedupKey(items[i]) # <<>>
                       /\ \A j \in (i + 1)..Len(items) :
                             DedupKey(items[j]) # DedupKey(items[i]),
            1)

\* Mutant of Dedupe: the key of a kept item is never recorded as seen.
DedupeNoSeen(items) == SelectSeq(items, LAMBDA it : DedupKey(it) # <<>>)

\* Mutant of Dedupe: a kept item is put in front of the output list.
RECURSIVE DedupePrependLoop(_, _, _)
DedupePrependLoop(items, seen, out) ==
  IF items = <<>> THEN out
  ELSE LET it == Head(items)
           key == DedupKey(it)
       IN IF key = <<>> \/ key \in seen
          THEN DedupePrependLoop(Tail(items), seen, out)
          ELSE DedupePrependLoop(Tail(items), seen \cup {key}, <<it>> \o out)

DedupePrepend(items) == DedupePrependLoop(items, {}, <<>>)

\* _dedupe: the loop over items with the set of keys seen so far.
RECURSIVE DedupeLoop(_, _, _)
DedupeLoop(items, seen, out) ==
  IF items = <<>> THEN out
  ELSE LET it == Head(items)
           key == DedupKey(it)
       IN IF key = <<>> \/ key \in seen
          THEN DedupeLoop(Tail(items), seen, out)
          ELSE DedupeLoop(Tail(items), seen \cup {key}, Append(out, it))

Dedupe(items) == DedupeLoop(items, {}, <<>>)

(***************************************************************************)
(* Calendar arithmetic of the datetime library (proleptic Gregorian).      *)
(* A wall-clock reading is a number of seconds since 1970-01-01T00:00:00   *)
(* of its own zone; zone offsets are seconds east of UTC.                  *)
(***************************************************************************)
\* timezone(timedelta(hours=9))
KstOffset == 9 * 3600

\* calendar.isleap
IsLeap(y) == y % 4 = 0 /\ (y % 100 # 0 \/ y % 400 = 0)

\* Mutant of DaysInMonth: February has 28 days in every year.
DaysInMonthNoLeap(y, m) ==
  CASE m = 2 -> 28
    [] m \in {4, 6, 9, 11} -> 30
    [] OTHER -> 31

\* calendar.monthrange(year, month)[1]
DaysInMonth(y, m) ==
  CASE m = 2 -> IF IsLeap(y) THEN 29 ELSE 28
    [] m \in {4, 6, 9, 11} -> 30
    [] OTHER -> 31

\* Day number (days since 1970-01-01) of the civil date y-m-d.
DaysFromCivil(y, m, d) ==
  LET yy == IF m <= 2 THEN y - 1 ELSE y
      era == yy \div 400
      yoe == yy - era * 400
      mp == IF m > 2 THEN m - 3 ELSE m + 9
      doy == (153 * mp + 2) \div 5 + d - 1
      doe == yoe * 365 + yoe \div 4 - yoe \div 100 + doy
  IN era * 146097 + doe - 719468

\* Civil date [y, m, d] of a day number.
CivilFromDays(z) ==
  LET zz == z + 719468
      era == zz \div 146097
      doe == zz - era * 146097
      yoe == (doe - doe \div 1460 + doe \div 36524 - doe \div 146096) \div 365
      doy == doe - (365 * yoe + yoe \div 4 - yoe \div 100)
      mp == (5 * doy + 2) \div 153
      d == doy - (153 * mp + 2) \div 5 + 1
      m == IF mp < 10 THEN mp + 3 ELSE mp - 9
  IN [y |-> (yoe + era * 400) + (IF m <= 2 THEN 1 ELSE 0), m |-> m, d |-> d]

\* datetime.weekday() of a day number: Monday is 0 (1970-01-01 was a Thursday).
Weekday(z) == (z + 3) % 7

\* The wall-clock reading of instant t in the zone at offset off.
WallClock(t, off) == t + off
\* The instant of a wall-clock reading w of the zone at offset off (astimezone).
Instant(w, off) == w - off
\* .replace(hour=0, minute=0, second=0, microsecond=0)
Midnight(w) == (w \div 86400) * 86400

(***************************************************************************)
(* Freshness labels and their lower-case forms.                            *)
(***************************************************************************)
\* freshness.lower()
LowerLabel(f) ==
  CASE f \in {"Day", "DAY", "day"} -> "day"
    [] f \in {"Week", "WEEK", "week"} -> "week"
    [] f \in {"Month", "MONTH", "month"} -> "month"
    [] OTHER -> f

\* _kst_calendar_window, with now the instant datetime.now(KST) reads.
KstCalendarWindow(label, clock) ==
  LET now_kst == WallClock(clock, KstOffset)
      c == CivilFromDays(now_kst \div 86400)
  IN CASE LowerLabel(label) = "day" ->
            LET start_kst == Midnight(now_kst)
            IN [start |-> Instant(start_kst, KstOffset),
                end |-> Instant(start_kst + 86400 - 1, KstOffset)]
       [] LowerLabel(label) = "week" ->
            LET weekday == Weekday(now_kst \div 86400)
                start_kst == Midnight(now_kst - weekday * 86400)
            IN [start |-> Instant(start_kst, KstOffset),
                end |-> Instant(start_kst + 7 * 86400 - 1, KstOffset)]
       [] OTHER ->
            LET start_kst == DaysFromCivil(c.y, c.m, 1) * 86400
                last_day == DaysInMonth(c.y, c.m)
                end_kst == DaysFromCivil(c.y, c.m, last_day) * 86400
                           + 23 * 3600 + 59 * 60 + 59
            IN [start |-> Instant(start_kst, KstOffset),
                end |-> Instant(end_kst, KstOffset)]

(***************************************************************************)
(* Published texts.  A published text is [kind, wall, off]:                *)
(*   "z"      YYYY-MM-DDTHH:MM:SSZ, wall the reading written               *)
(*   "offset" YYYY-MM-DDTHH:MM:SS+HH:MM, off the offset written            *)
(*   "naive"  YYYY-MM-DD or YYYY-MM-DDTHH:MM:SS, nothing after it          *)
(*   "trail"  a YYYY-MM-DD[THH:MM:SS] prefix followed by text that         *)
(*            fromisoformat rejects                                        *)
(*   "junk"   any other non-empty text                                     *)
(*   "empty"  the empty text                                               *)
(* An optional value is None or Some(x); Val(o) is the x of Some(x).        *)
(***************************************************************************)
None == <<>>
Some(x) == <<x>>
Val(o) == o[1]

\* _parse_dt_utc; tz is the offset of the host's local zone, which
\* astimezone() assumes for a naive datetime.
ParseDtUtc(p, tz) ==
  CASE p.kind = "empty" -> None
    [] p.kind = "z" -> Some(Instant(p.wall, 0))
    [] p.kind = "offset" -> Some(Instant(p.wall, p.off))
    [] p.kind = "naive" -> Some(Instant(p.wall, tz))
    [] p.kind = "trail" -> Some(Instant(p.wall, 0))
    [] OTHER -> None

(***************************************************************************)
(* search_news: filtering by the calendar window, the rolling fallback and *)
(* the final sort.  An item is [url, title, published].                    *)
(***************************************************************************)
\* _sort_key / _key_dt: (0, d) for a parsed date, (1, epoch) otherwise.
SortKey(it, tz) ==
  LET d == ParseDtUtc(it.published, tz)
  IN IF d # None THEN <<0, Val(d)>> ELSE <<1, 0>>

\* Python's order on the key tuples.
KeyLess(a, b) == a[1] < b[1] \/ (a[1] = b[1] /\ a[2] < b[2])

\* One step of a stable descending sort: x, which came after every element
\* of s in the list, goes before the first element with a smaller key.
RECURSIVE InsertDesc(_, _, _)
InsertDesc(x, s, tz) ==
  IF s = <<>> THEN <<x>>
  ELSE IF KeyLess(SortKey(Head(s), tz), SortKey(x, tz))
       THEN <<x>> \o s
       ELSE <<Head(s)>> \o InsertDesc(x, Tail(s), tz)

RECURSIVE SortLoop(_, _, _)
SortLoop(items, acc, tz) ==
  IF items = <<>> THEN acc
  ELSE SortLoop(Tail(items), InsertDesc(Head(items), acc, tz), tz)

\* Mutant of SortReverse: the list is left in the order it has.
SortReverseNot(items, tz) == items

\* list.sort(key=_sort_key, reverse=True): stable, largest key first.
SortReverse(items, tz) == SortLoop(items, <<>>, tz)

\* The items search_news builds from the parsed array: every field stripped.
StripItem(v) ==
  [url |-> v.url,
   title |-> [core |-> v.title.core, upper |-> v.title.upper, pad |-> FALSE],
   published |-> v.published]

\* win_start_utc <= dt_utc <= win_end_utc
InWindow(d, w) == w.start <= d /\ d <= w.end

\* Mutant of FallbackDays: seven days whatever the label.
FallbackDaysAlwaysWeek(label) == 7

\* Mutant of FallbackDays: an unrecognized label is taken as month.
FallbackDaysDefaultMonth(label) ==
  IF LowerLabel(label) = "day" THEN 1
  ELSE IF LowerLabel(label) = "week" THEN 7 ELSE 30

\* The lookback of the rolling fallback, in days.
FallbackDays(label) ==
  IF LowerLabel(label) = "month" THEN 30
  ELSE IF LowerLabel(label) = "week" THEN 7 ELSE 1

\* _sort_key on a list of search_news.  The import statement inside the
\* fallback branch makes datetime and timezone local names of search_news,
\* bound only when that branch has run; _sort_key reads them for an item
\* without a parsed date, which raises NameError while they are unbound.
SortKeyRaises(items, imported, tz) ==
  /\ ~imported
  /\ \E i \in 1..Len(items) : ParseDtUtc(items[i].published, tz) = None

\* Mutant of SearchNews: the fallback pass runs whatever the first pass kept.
SearchNewsFallbackAlways(arr, label, clock, tz) ==
  LET items == [i \in 1..Len(arr) |-> StripItem(arr[i])]
      dt(it) == ParseDtUtc(it.published, tz)
      w == KstCalendarWindow(label, clock)
      kept1 == SelectSeq(items,
                 LAMBDA it : dt(it) = None
                             \/ InWindow(Val(dt(it)), w))
      kept2 == kept1 \o SelectSeq(items,
                          LAMBDA it : dt(it) = None
                                      \/ clock - Val(dt(it)) <= FallbackDays(label) * 86400)
  IN [items |-> items,
      window |-> w,
      unparsable |-> SelectSeq(items, LAMBDA it : dt(it) = None),
      dropped_due_to_window |-> SelectSeq(items,
                                  LAMBDA it : dt(it) # None
                                              /\ ~InWindow(Val(dt(it)), w)),
      fallback |-> TRUE,
      kept |-> SortReverse(kept2, tz),
      error |-> ""]

\* search_news from the parsed array on: arr is the array the agent
\* returned, clock the clock reading, tz the host's zone offset.  The
\* record holds the locals of the call, the list it returns in kept (empty
\* when it raises) and the exception it raises in error ("" for none).
SearchNews(arr, label, clock, tz) ==
  LET items == [i \in 1..Len(arr) |-> StripItem(arr[i])]
      w == KstCalendarWindow(label, clock)
      dt(it) == ParseDtUtc(it.published, tz)
      unparsable == SelectSeq(items, LAMBDA it : dt(it) = None)
      kept1 == SelectSeq(items,
                 LAMBDA it : dt(it) = None
                             \/ InWindow(Val(dt(it)), w))
      dropped == SelectSeq(items,
                   LAMBDA it : dt(it) # None
                               /\ ~InWindow(Val(dt(it)), w))
      days == FallbackDays(label)
      kept2 == IF kept1 = <<>>
               THEN SelectSeq(items,
                      LAMBDA it : dt(it) = None
                                  \/ clock - Val(dt(it)) <= days * 86400)
               ELSE kept1
      raises == SortKeyRaises(kept2, kept1 = <<>>, tz)
  IN [items |-> items,
      window |-> w,
      unparsable |-> unparsable,
      dropped_due_to_window |-> dropped,
      fallback |-> (kept1 = <<>>),
      kept |-> IF raises THEN <<>> ELSE SortReverse(kept2, tz),
      error |-> IF raises THEN "NameError" ELSE ""]

(***************************************************************************)
(* Queries.  A query text is a sequence of tokens: words, the single blank *)
(* " ", the quote, the parentheses, the keywords AND and OR, and site:     *)
(* filters.  "KOREA" is a word that contains the letters OR.               *)
(***************************************************************************)
\* The tokens in which "site:" occurs, whatever the case.
IsSiteToken(tok) == tok \in {"site:a.com", "SITE:b.com"}

\* str.strip() on a token sequence.
RECURSIVE LStrip(_)
LStrip(qt) == IF qt # <<>> /\ Head(qt) = " " THEN LStrip(Tail(qt)) ELSE qt

RECURSIVE RStrip(_)
RStrip(qt) ==
  IF qt # <<>> /\ qt[Len(qt)] = " " THEN RStrip(SubSeq(qt, 1, Len(qt) - 1)) ELSE qt

Strip(qt) == RStrip(LStrip(qt))

\* _has_site_filter
HasSiteFilter(qt) == \E i \in 1..Len(qt) : IsSiteToken(qt[i])

\* re.sub(r"\(\s*site:[^)]+\)", "", q): a "(" followed by blanks and a site:
\* filter is removed up to the next ")".
RECURSIVE RemoveParenGroups(_)
RemoveParenGroups(qt) ==
  IF qt = <<>> THEN <<>>
  ELSE LET rest == LStrip(Tail(qt))
           closes == {i \in 1..Len(rest) : rest[i] = ")"}
       IN IF Head(qt) = "(" /\ rest # <<>> /\ IsSiteToken(rest[1]) /\ closes # {}
          THEN LET c == CHOOSE i \in closes : \A j \in closes : i <= j
               IN RemoveParenGroups(SubSeq(rest, c + 1, Len(rest)))
          ELSE <<Head(qt)>> \o RemoveParenGroups(Tail(qt))

\* The text after the run of non-blank tokens q starts with.
RECURSIVE SkipNonBlank(_)
SkipNonBlank(qt) ==
  IF qt = <<>> \/ Head(qt) = " " THEN qt ELSE SkipNonBlank(Tail(qt))

\* re.sub(r"site:\S+", "", q): a site: filter is removed with everything
\* up to the next blank.
RECURSIVE RemoveSiteTokens(_)
RemoveSiteTokens(qt) ==
  IF qt = <<>> THEN <<>>
  ELSE IF IsSiteToken(Head(qt))
       THEN RemoveSiteTokens(SkipNonBlank(Tail(qt)))
       ELSE <<Head(qt)>> \o RemoveSiteTokens(Tail(qt))

\* re.sub(r"\s{2,}", " ", q): a run of blanks becomes one blank.
RECURSIVE CollapseRuns(_)
CollapseRuns(qt) ==
  IF qt = <<>> THEN <<>>
  ELSE IF Head(qt) = " " THEN <<" ">> \o CollapseRuns(LStrip(qt))
       ELSE <<Head(qt)>> \o CollapseRuns(Tail(qt))

\* _remove_site_filters
RemoveSiteFilters(qt) ==
  IF qt = <<>> THEN qt
  ELSE Strip(CollapseRuns(RemoveSiteTokens(RemoveParenGroups(qt))))

\* q.replace("AND", " ").replace("OR", " ")
RECURSIVE ReplaceKeywords(_)
ReplaceKeywords(qt) ==
  IF qt = <<>> THEN <<>>
  ELSE (CASE Head(qt) \in {"AND", "OR"} -> <<" ">>
          [] Head(qt) = "KOREA" -> <<"K", " ", "EA">>
          [] OTHER -> <<Head(qt)>>)
       \o ReplaceKeywords(Tail(qt))

\* q.replace("  ", " "): one pass, left to right, over disjoint pairs.
RECURSIVE ReplacePairs(_)
ReplacePairs(qt) ==
  IF Len(qt) >= 2 /\ qt[1] = " " /\ qt[2] = " "
  THEN <<" ">> \o ReplacePairs(SubSeq(qt, 3, Len(qt)))
  ELSE IF qt = <<>> THEN <<>>
       ELSE <<Head(qt)>> \o ReplacePairs(Tail(qt))

\* _simplify_query
SimplifyQuery(qt) ==
  IF qt = <<>> THEN qt
  ELSE Strip(SelectSeq(ReplacePairs(ReplaceKeywords(qt)), LAMBDA tok : tok # "\""))

\* Mutant of Rounds: the site-filter-stripped variant is always planned.
RoundsAlwaysNoSite(qt) ==
  <<[kind |-> "original", q |-> qt],
    [kind |-> "nosite", q |-> RemoveSiteFilters(qt)],
    [kind |-> "simplified", q |-> SimplifyQuery(qt)]>>

\* The candidate variants of search_news_multi, each with the round it is.
Rounds(qt) ==
  <<[kind |-> "original", q |-> qt]>>
  \o (IF HasSiteFilter(qt)
      THEN <<[kind |-> "nosite", q |-> RemoveSiteFilters(qt)]>>
      ELSE <<>>)
  \o <<[kind |-> "simplified", q |-> SimplifyQuery(qt)]>>

\* The loop that removes repeated and empty variants.
RECURSIVE UniqLoop(_, _, _)
UniqLoop(cands, seen_q, uniq) ==
  IF cands = <<>> THEN uniq
  ELSE LET rq == Strip(Head(cands).q)
       IN IF rq # <<>> /\ rq \notin seen_q
          THEN UniqLoop(Tail(cands), seen_q \cup {rq},
                        Append(uniq, [kind |-> Head(cands).kind, q |-> rq]))
          ELSE UniqLoop(Tail(cands), seen_q, uniq)

UniqRounds(cands) == UniqLoop(cands, {}, <<>>)

(***************************************************************************)
(* _extract_json_array.  Here a text is a sequence of characters.          *)
(***************************************************************************)
\* The backtick character of a code fence.
Backtick == "BACKTICK"

\* str.lower() on a character.
LowerChar(c) ==
  CASE c = "N" -> "n"
    [] c = "U" -> "u"
    [] c = "L" -> "l"
    [] c = "O" -> "o"
    [] c = "E" -> "e"
    [] OTHER -> c

LowerText(t) == [i \in 1..Len(t) |-> LowerChar(t[i])]

\* t.strip(): the characters in drop are removed from both ends.
RECURSIVE LStripChars(_, _)
LStripChars(t, drop) ==
  IF t # <<>> /\ Head(t) \in drop THEN LStripChars(Tail(t), drop) ELSE t

RECURSIVE RStripChars(_, _)
RStripChars(t, drop) ==
  IF t # <<>> /\ t[Len(t)] \in drop
  THEN RStripChars(SubSeq(t, 1, Len(t) - 1), drop)
  ELSE t

StripChars(t, drop) == RStripChars(LStripChars(t, drop), drop)

\* t.split("\n", 1)[-1]: the text after the first line break, or all of t.
AfterFirstNewline(t) ==
  LET nl == {i \in 1..Len(t) : t[i] = "\n"}
  IN IF nl = {} THEN t
     ELSE SubSeq(t, (CHOOSE i \in nl : \A j \in nl : i <= j) + 1, Len(t))

\* t.find(c) and t.rfind(c), 1-based, 0 when c does not occur.
Find(t, c) ==
  LET at == {i \in 1..Len(t) : t[i] = c}
  IN IF at = {} THEN 0 ELSE CHOOSE i \in at : \A j \in at : i <= j

RFind(t, c) ==
  LET at == {i \in 1..Len(t) : t[i] = c}
  IN IF at = {} THEN 0 ELSE CHOOSE i \in at : \A j \in at : i >= j

StartsWithFence(t) == Len(t) >= 3 /\ t[1] = Backtick /\ t[2] = Backtick /\ t[3] = Backtick

\* Mutant of ExtractJsonArray: the first "]" ends the array, not the last.
ExtractJsonArrayFirstClose(txt) ==
  LET t0 == StripChars(txt, {" ", "\n"})
      t == IF StartsWithFence(t0) THEN AfterFirstNewline(StripChars(t0, {Backtick})) ELSE t0
      l == Find(t, "[")
      r == Find(t, "]")
  IN IF LowerText(t0) \in {<<"n", "u", "l", "l">>, <<"n", "o", "n", "e">>}
     THEN Some(<<"[", "]">>)
     ELSE IF l # 0 /\ r # 0 /\ r > l THEN Some(SubSeq(t, l, r)) ELSE None

\* _extract_json_array
ExtractJsonArray(txt) ==
  LET t0 == StripChars(txt, {" ", "\n"})
      t == IF StartsWithFence(t0) THEN AfterFirstNewline(StripChars(t0, {Backtick})) ELSE t0
      l == Find(t, "[")
      r == RFind(t, "]")
  IN IF LowerText(t0) \in {<<"n", "u", "l", "l">>, <<"n", "o", "n", "e">>}
     THEN Some(<<"[", "]">>)
     ELSE IF l # 0 /\ r # 0 /\ r > l THEN Some(SubSeq(t, l, r))
     ELSE IF t = <<"[", "]">> \/ (t # <<>> /\ Head(t) = "[" /\ t[Len(t)] = "]")
          THEN Some(t)
          ELSE None

(***************************************************************************)
(* search_news up to the parsed array: the runs of the agent, the retry   *)
(* and json.loads.  In a response text the tokens "A", "B" and "C" each    *)
(* stand for the text of one JSON object and "1" for a number; the texts   *)
(* of the model hold no nested array.                                      *)
(***************************************************************************)
\* The tokens that are JSON values.
ObjectTokens == {"A", "B", "C"}
ValueTokens == ObjectTokens \cup {"1"}

\* Mutant of RawJsonOrEmpty: without an array the response is parsed as it is.
RawJsonOrProse(o) == IF o = None THEN <<"x">> ELSE Val(o)

\* if raw_json is None: raw_json = "[]"
RawJsonOrEmpty(o) == IF o = None THEN <<"[", "]">> ELSE Val(o)

\* The values of the text v1,v2,...,vn that follows "[", up to the "]" that
\* ends the text; None when the text is not of that form.
RECURSIVE JsonElements(_, _)
JsonElements(t, acc) ==
  IF Len(t) >= 2 /\ t[1] \in ValueTokens /\ t[2] = "," /\ Len(t) >= 4
  THEN JsonElements(SubSeq(t, 3, Len(t)), Append(acc, t[1]))
  ELSE IF Len(t) = 2 /\ t[1] \in ValueTokens /\ t[2] = "]"
       THEN Some(Append(acc, t[1]))
       ELSE None

\* Mutant of JsonLoads: whatever is not a value is skipped.
JsonLoadsLenient(t) == Some(SelectSeq(t, LAMBDA c : c \in ValueTokens))

\* json.loads on an array text: the list of its values, None for the
\* ValueError of a text that is not JSON.  Blanks between tokens are skipped.
JsonLoads(t) ==
  LET body == SelectSeq(t, LAMBDA c : c \notin {" ", "\n"})
  IN IF body = <<"[", "]">> THEN Some(<<>>)
     ELSE IF Len(body) >= 3 /\ body[1] = "["
          THEN JsonElements(Tail(body), <<>>)
          ELSE None

(***************************************************************************)
(* Inputs.                                                                 *)
(***************************************************************************)
\* The UTC reading y-m-d h:mi:s as an instant.
At(y, m, d, h, mi, sec) == DaysFromCivil(y, m, d) * 86400 + h * 3600 + mi * 60 + sec

Url(base, qs) == [base |-> base, qs |-> qs]
Param(k, v) == [k |-> k, v |-> v]
Title(core, upper, pad) == [core |-> core, upper |-> upper, pad |-> pad]
Pub(kind, wall, off) == [kind |-> kind, wall |-> wall, off |-> off]
Item(url, title, published) == [url |-> url, title |-> title, published |-> published]

NoTitle == Title("", FALSE, FALSE)
NoUrl == Url("", <<>>)
Junk == Pub("junk", 0, 0)
Empty == Pub("empty", 0, 0)

\* No call of search_news made yet.
NoCall ==
  [items |-> <<>>, window |-> [start |-> 0, end |-> 0], unparsable |-> <<>>,
   dropped_due_to_window |-> <<>>, fallback |-> FALSE, kept |-> <<>>,
   error |-> ""]

\* A call of search_news that raised before it had an array: the agent
\* could not be made or run, or its answer was not a JSON array.
Raised == [NoCall EXCEPT !.error = "NewsError"]

\* Bounds of the model.
DedupeLen == 3
WindowDays == 8
MaxTextLen == 6
MaxData == 3
MaxResp == 2

\* The arguments of _dedupe.
DedupeUrls ==
  {Url("http://a.com/x", <<Param("utm_source", "y")>>),
   Url("http://a.com/x", <<>>),
   Url("http://a.com/x", <<Param("UTM_medium", "z"), Param("id", "1")>>),
   Url("http://a.com/x", <<Param("id", "1")>>),
   Url("http://a.com/x", <<Param("id", "1"), Param("ref", "")>>),
   Url("", <<Param("Utm", "1")>>),
   NoUrl,
   Url(BadBase, <<Param("utm_source", "y")>>),
   Url(BadBase, <<>>)}

DedupeTitles ==
  {NoTitle, Title("kt", FALSE, FALSE), Title("kt", TRUE, TRUE),
   Title("http://a.com/x", FALSE, FALSE)}

DedupePool ==
  {Item(u, NoTitle, Junk) : u \in DedupeUrls}
  \cup {Item(NoUrl, t, Junk) : t \in DedupeTitles}
  \cup {Item(Url("", <<Param("Utm", "1")>>), Title("kt", FALSE, FALSE), Junk),
        Item(Url("http://a.com/x", <<>>), Title("kt", FALSE, FALSE), Junk)}

\* The clock readings of the calendar window: runs of days around the end
\* of a leap February, of a common February, of a 30-day month and of a
\* year, at the seconds where the UTC or the KST date changes.
WindowNows ==
  {(d0 + k) * 86400 + sec :
     d0 \in {DaysFromCivil(2024, 2, 25), DaysFromCivil(2023, 2, 24),
             DaysFromCivil(2024, 4, 26), DaysFromCivil(2024, 12, 27)},
     k \in 0..WindowDays,
     sec \in {0, 1, 15 * 3600 - 1, 15 * 3600, 86399}}

Labels == {"day", "Day", "week", "WEEK", "month", "Month", "year", ""}

\* The arguments of _extract_json_array.
ExtractAlphabet == {Backtick, "\n", "[", "]", "x"}

ExtractExamples ==
  {<<"n", "u", "l", "l">>,
   <<"N", "U", "L", "L">>,
   <<" ", "n", "u", "l", "l", "\n">>,
   <<"n", "o", "n", "e">>,
   <<"N", "o", "n", "e">>,
   <<Backtick, Backtick, Backtick, "j", "s", "o", "n", "\n", "[", "]", "\n",
     Backtick, Backtick, Backtick>>,
   <<"s", "o", "m", "e", " ", "t", "e", "x", "t", " ", "[", "1", ",", "2", "]",
     " ", "m", "o", "r", "e">>,
   <<Backtick, Backtick, Backtick, "j", "s", "o", "n", "\n", "x", "[", "]",
     "x", "]", "x", "\n", Backtick, Backtick, Backtick>>,
   <<"n", "o", " ", "b", "r", "a", "c", "k", "e", "t", "s", " ", "h", "e", "r", "e">>}

ExtractTexts == BoundedSeq(ExtractAlphabet, MaxTextLen) \cup ExtractExamples

\* The clock reading of the search calls: Wednesday 2024-03-06 12:00 KST.
SearchNow == At(2024, 3, 6, 3, 0, 0)

HostZones == {0, KstOffset}

SearchLabels == {"Week", "day", "MONTH", "year"}

\* Published texts around the windows of SearchNow: the week runs from
\* 2024-03-03T15:00:00Z to 2024-03-10T14:59:59Z.
SearchPublished ==
  {Pub("z", At(2024, 3, 3, 15, 0, 0), 0),
   Pub("z", At(2024, 3, 3, 14, 59, 59), 0),
   Pub("z", At(2024, 3, 6, 1, 0, 0), 0),
   Pub("offset", At(2024, 3, 10, 23, 59, 59), KstOffset),
   Pub("z", At(2024, 3, 10, 15, 0, 0), 0),
   Pub("z", At(2024, 2, 28, 3, 0, 0), 0),
   Pub("z", At(2024, 2, 28, 2, 59, 59), 0),
   Pub("z", At(2024, 2, 10, 0, 0, 0), 0),
   Pub("naive", At(2024, 3, 3, 20, 0, 0), 0),
   Junk}

SearchPool ==
  {Item(Url("http://a.com/x", <<>>), Title("kt", FALSE, FALSE), p) :
     p \in SearchPublished}

\* The items the agent returns in the rounds of search_news_multi.
MultiPool ==
  {Item(Url("http://a.com/x", <<Param("utm_source", "y")>>),
        Title("kt", FALSE, FALSE), Pub("z", At(2024, 3, 5, 0, 0, 0), 0)),
   Item(Url("http://a.com/x", <<>>),
        Title("kt", TRUE, TRUE), Pub("z", At(2024, 3, 6, 1, 0, 0), 0)),
   Item(NoUrl, Title("kt", FALSE, TRUE), Junk),
   Item(Url("http://b.com/y", <<>>), NoTitle, Pub("z", At(2024, 3, 3, 14, 59, 59), 0)),
   Item(NoUrl, Title("lg", FALSE, FALSE), Pub("z", At(2024, 3, 4, 0, 0, 0), 0))}

Queries ==
  {<<"KT">>,
   <<" ", "KT">>,
   <<"\"", "KT", "\"", " ", "AND", " ", "5G">>,
   <<"site:a.com", " ", "KT">>,
   <<"(", "site:a.com", " ", "OR", " ", "SITE:b.com", ")", " ", "KT">>,
   <<"KOREA", " ", "site:a.com">>,
   <<>>}

Counts == {1, 60}
Targets == {1, 2}
RoundLimits == {1, 3}

Min(a, b) == IF a <= b THEN a ELSE b
Max(a, b) == IF a >= b THEN a ELSE b

\* Mutant of Take: the list is not cut.
TakeAll(s, n) == s

\* s[:n]
Take(s, n) == SubSeq(s, 1, Min(n, Len(s)))

(***************************************************************************)
(* _dedupe on a list, and again on its own output.                         *)
(***************************************************************************)
IdleEnv == freshness = "Week" /\ now = SearchNow /\ tzLocal = 0
IdleDedupe == dd_in = <<>> /\ dd_out = <<>> /\ dd_twice = <<>>
IdleWindow == win = [start |-> 0, end |-> 0]
IdleExtract == text = <<>> /\ extracted = None
IdleSearch == data = <<>> /\ sn = NoCall
IdleCall == runs = <<>> /\ raw_json = None
IdleRun == r_status = "" /\ elapsed = 0 /\ checked = 0 /\ polls = 0 /\ outcome = ""
IdleAgent == agent_cache = None /\ agents = <<>> /\ ops = <<>>
IdleParse == dt_str = Empty /\ parsed = None
IdleService == IdleCall /\ IdleRun /\ IdleAgent /\ IdleParse
IdleMulti ==
  /\ q = <<>> /\ count = 0 /\ target_results = 0 /\ max_rounds = 0
  /\ rounds = <<>> /\ uniq_rounds = <<>> /\ round = 0
  /\ all_items = <<>> /\ attempted = <<>> /\ result = <<>> /\ ui = ""

InitDedupe ==
  /\ pc = "start"
  /\ dd_in \in BoundedSeq(DedupePool, DedupeLen)
  /\ dd_out = <<>> /\ dd_twice = <<>>
  /\ IdleEnv /\ IdleWindow /\ IdleExtract /\ IdleSearch /\ IdleMulti /\ IdleService

DedupeOnce ==
  /\ pc = "start"
  /\ dd_out' = Dedupe(dd_in)
  /\ pc' = "deduped"
  /\ UNCHANGED <<dd_in, dd_twice, envVars, serviceVars, windowVars, extractVars, searchVars,
               multiVars>>

DedupeAgain ==
  /\ pc = "deduped"
  /\ dd_twice' = Dedupe(dd_out)
  /\ pc' = "done"
  /\ UNCHANGED <<dd_in, dd_out, envVars, serviceVars, windowVars, extractVars, searchVars,
               multiVars>>

NextDedupe == DedupeOnce \/ DedupeAgain

SpecDedupe == InitDedupe /\ [][NextDedupe]_vars

(***************************************************************************)
(* _kst_calendar_window at a clock reading.                                *)
(***************************************************************************)
InitWindow ==
  /\ pc = "start"
  /\ freshness \in Labels
  /\ now \in WindowNows
  /\ tzLocal = 0
  /\ IdleWindow /\ IdleDedupe /\ IdleExtract /\ IdleSearch /\ IdleMulti /\ IdleService

ComputeWindow ==
  /\ pc = "start"
  /\ win' = KstCalendarWindow(freshness, now)
  /\ pc' = "done"
  /\ UNCHANGED <<envVars, serviceVars, dedupeVars, extractVars, searchVars, multiVars>>

NextWindow == ComputeWindow

SpecWindow == InitWindow /\ [][NextWindow]_vars

(***************************************************************************)
(* _extract_json_array on a response text.                                 *)
(***************************************************************************)
InitExtract ==
  /\ pc = "start"
  /\ text \in ExtractTexts
  /\ extracted = None
  /\ IdleEnv /\ IdleDedupe /\ IdleWindow /\ IdleSearch /\ IdleMulti /\ IdleService

Extract ==
  /\ pc = "start"
  /\ extracted' = ExtractJsonArray(text)
  /\ pc' = "done"
  /\ UNCHANGED <<text, envVars, serviceVars, dedupeVars, windowVars, searchVars, multiVars>>

NextExtract == Extract

SpecExtract == InitExtract /\ [][NextExtract]_vars

(***************************************************************************)
(* _parse_dt_utc on one published text, on a host in some zone.            *)
(***************************************************************************)
\* The zones of the host: UTC, Asia/Seoul and America/New_York in winter.
ParseZones == HostZones \cup {0 - 5 * 3600}

\* The wall-clock readings the texts spell: a date alone spells midnight.
ParseWalls ==
  {At(2024, 3, 3, 0, 0, 0), At(2024, 3, 3, 20, 0, 0),
   At(2024, 2, 29, 0, 0, 0), At(2024, 12, 31, 23, 59, 59)}

ParsePublished ==
  {Pub(k, w, 0) : k \in {"z", "naive", "trail"}, w \in ParseWalls}
  \cup {Pub("offset", w, o) : w \in ParseWalls, o \in {KstOffset, 0 - 5 * 3600}}
  \cup {Junk, Empty}

InitParse ==
  /\ pc = "start"
  /\ freshness = "Week"
  /\ now = SearchNow
  /\ tzLocal \in ParseZones
  /\ dt_str \in ParsePublished
  /\ parsed = None
  /\ IdleSearch /\ IdleDedupe /\ IdleWindow /\ IdleExtract /\ IdleMulti
  /\ IdleCall /\ IdleRun /\ IdleAgent

ParseDt ==
  /\ pc = "start"
  /\ parsed' = ParseDtUtc(dt_str, tzLocal)
  /\ pc' = "done"
  /\ UNCHANGED <<dt_str, envVars, dedupeVars, windowVars, extractVars, searchVars,
                 multiVars, callVars, runVars, agentVars>>

NextParse == ParseDt

SpecParse == InitParse /\ [][NextParse]_vars

(***************************************************************************)
(* search_news on the array parsed from the agent's response.              *)
(***************************************************************************)
InitSearch ==
  /\ pc = "start"
  /\ freshness \in SearchLabels
  /\ now = SearchNow
  /\ tzLocal \in HostZones
  /\ data \in BoundedSeq(SearchPool, MaxData)
  /\ sn = NoCall
  /\ IdleDedupe /\ IdleWindow /\ IdleExtract /\ IdleMulti /\ IdleService

SearchNewsCall ==
  /\ pc = "start"
  /\ sn' = SearchNews(data, freshness, now, tzLocal)
  /\ pc' = "done"
  /\ UNCHANGED <<data, envVars, serviceVars, dedupeVars, windowVars, extractVars, multiVars>>

NextSearch == SearchNewsCall

SpecSearch == InitSearch /\ [][NextSearch]_vars

(***************************************************************************)
(* search_news as a whole: the runs of the agent, then the parsing, the    *)
(* filter and the sort.                                                    *)
(***************************************************************************)
\* The object a token of a response text stands for.
ObjectOf(tok) ==
  CASE tok = "A" -> Item(Url("http://a.com/x", <<>>), Title("kt", FALSE, FALSE),
                         Pub("z", At(2024, 3, 6, 1, 0, 0), 0))
    [] tok = "B" -> Item(Url("http://b.com/y", <<>>), Title("kt", TRUE, FALSE),
                         Pub("z", At(2024, 2, 10, 0, 0, 0), 0))
    [] OTHER -> Item(Url("http://c.com/z", <<>>), NoTitle, Junk)

\* The texts the agent answers with.
Responses ==
  {<<"[", "]">>,
   <<"n", "u", "l", "l">>,
   <<"x">>,
   <<"x", "[">>,
   <<"]", "x", "[">>,
   <<Backtick, Backtick, Backtick>>,
   <<Backtick, Backtick, Backtick, "j", "s", "o", "n", "\n", "[", "A", "]", "\n",
     Backtick, Backtick, Backtick>>,
   <<"x", " ", "[", "A", ",", " ", "B", "]", " ", "x">>,
   <<"[", "x", "]">>,
   <<"[", "A", ",", "]">>,
   <<"[", "A", "]", "x", "[", "B", "]">>,
   <<"[", "1", ",", "1", "]">>,
   <<"[", "B", ",", "C", "]">>}

\* A call of _run_and_wait by search_news: the prompt, whether the call
\* raised, and the text it returned.
Run(prompt, raised, raw) == [prompt |-> prompt, raised |-> raised, raw |-> raw]

\* search_news from the text extracted on: the default for no array,
\* json.loads, the items made of the array (an array value that is not an
\* object has no get), and the filter and sort.
ParseResponse(o, label, at, tz) ==
  LET arr == JsonLoads(RawJsonOrEmpty(o))
  IN IF arr = None THEN Raised
     ELSE IF \E i \in 1..Len(Val(arr)) : Val(arr)[i] \notin ObjectTokens
          THEN [NoCall EXCEPT !.error = "AttributeError"]
          ELSE SearchNews([i \in 1..Len(Val(arr)) |-> ObjectOf(Val(arr)[i])],
                          label, at, tz)

\* The array json.loads returned, as the items it holds.
ParsedArray(o) ==
  LET arr == JsonLoads(RawJsonOrEmpty(o))
  IN IF arr = None \/ \E i \in 1..Len(Val(arr)) : Val(arr)[i] \notin ObjectTokens
     THEN <<>>
     ELSE [i \in 1..Len(Val(arr)) |-> ObjectOf(Val(arr)[i])]

InitCall ==
  /\ pc = "start"
  /\ freshness \in {"Week", "day"}
  /\ now = SearchNow
  /\ tzLocal = 0
  /\ IdleSearch /\ IdleDedupe /\ IdleWindow /\ IdleExtract /\ IdleMulti /\ IdleService

\* Mutant of FirstRun: the retry follows whatever was extracted.
FirstRunAlwaysRetry ==
  /\ pc = "start"
  /\ \E raw \in Responses :
       /\ runs' = <<Run("user", FALSE, raw)>>
       /\ raw_json' = ExtractJsonArray(raw)
  /\ pc' = "retry"
  /\ UNCHANGED <<envVars, dedupeVars, windowVars, extractVars, searchVars, multiVars,
                 runVars, agentVars, parseVars>>

\* The run with the user prompt returns a text.
FirstRun ==
  /\ pc = "start"
  /\ \E raw \in Responses :
       /\ runs' = <<Run("user", FALSE, raw)>>
       /\ raw_json' = ExtractJsonArray(raw)
  /\ pc' = IF raw_json' = None THEN "retry" ELSE "parse"
  /\ UNCHANGED <<envVars, dedupeVars, windowVars, extractVars, searchVars, multiVars,
                 runVars, agentVars, parseVars>>

\* The run with the amended prompt returns a text.
RetryRun ==
  /\ pc = "retry"
  /\ \E raw2 \in Responses :
       /\ runs' = Append(runs, Run("retry", FALSE, raw2))
       /\ raw_json' = ExtractJsonArray(raw2)
  /\ pc' = "parse"
  /\ UNCHANGED <<envVars, dedupeVars, windowVars, extractVars, searchVars, multiVars,
                 runVars, agentVars, parseVars>>

\* _run_and_wait raises NewsError, which search_news lets through.
RunRaises ==
  /\ pc \in {"start", "retry"}
  /\ runs' = Append(runs, Run(IF pc = "start" THEN "user" ELSE "retry", TRUE, <<>>))
  /\ sn' = Raised
  /\ pc' = "done"
  /\ UNCHANGED <<data, raw_json, envVars, dedupeVars, windowVars, extractVars, multiVars,
                 runVars, agentVars, parseVars>>

\* The rest of search_news, from the text extracted on.
ParseAndFilter ==
  /\ pc = "parse"
  /\ data' = ParsedArray(raw_json)
  /\ sn' = ParseResponse(raw_json, freshness, now, tzLocal)
  /\ pc' = "done"
  /\ UNCHANGED <<runs, raw_json, envVars, dedupeVars, windowVars, extractVars, multiVars,
                 runVars, agentVars, parseVars>>

NextCall == FirstRun \/ RetryRun \/ RunRaises \/ ParseAndFilter

SpecCall == InitCall /\ [][NextCall]_vars

(***************************************************************************)
(* _run_and_wait: the poll loop and the reading of the response.  Time is  *)
(* counted in tenths of a second from the instant start is taken.          *)
(***************************************************************************)
\* The timeout of the model, in tenths of a second (timeout_sec is 180 s).
TimeoutTenths == 30

\* time.sleep(0.7)
SleepTenths == 7

\* The statuses the service reports; "" is also a run without a status.
Statuses ==
  {"completed", "COMPLETED", "Succeeded", "failed", "Cancelled", "expired",
   "in_progress", "queued", "incomplete", ""}

\* The time a call of the service takes and the time a sleep overruns.
Delays == {0, 2}

\* Past this reading no poll is modelled; it is never reached before the
\* timeout ends the loop.
MaxElapsed == TimeoutTenths + SleepTenths + 2 * 2

\* Mutant of LowerStatus: the status is compared as it is written.
LowerStatusNot(st) == st

\* (r.get("status") or "").lower()
LowerStatus(st) ==
  CASE st = "COMPLETED" -> "completed"
    [] st = "Succeeded" -> "succeeded"
    [] st = "Cancelled" -> "cancelled"
    [] OTHER -> st

TERMINAL_OK == {"completed", "succeeded"}
TERMINAL_BAD == {"failed", "cancelled", "expired"}

\* Mutant of TimedOut: the timeout never ends the loop.
TimedOutNever(t, limit) == FALSE

\* time.time() - start > timeout_sec
TimedOut(t, limit) == t > limit

InitRun ==
  /\ pc = "poll"
  /\ IdleEnv /\ IdleSearch /\ IdleDedupe /\ IdleWindow /\ IdleExtract /\ IdleMulti
  /\ IdleService

\* One turn of the loop: the status is read, then the loop is left for the
\* reading of the response, or NewsError is raised for a failed run or for
\* the timeout, or the call sleeps and polls again.
Poll ==
  /\ pc = "poll"
  /\ elapsed <= MaxElapsed
  /\ polls' = polls + 1
  /\ \E st \in Statuses, d \in Delays, over \in Delays :
       /\ r_status' = st
       /\ IF LowerStatus(st) \in TERMINAL_OK
          THEN /\ pc' = "read" /\ outcome' = ""
               /\ elapsed' = elapsed + d /\ checked' = checked
          ELSE IF LowerStatus(st) \in TERMINAL_BAD
          THEN /\ pc' = "done" /\ outcome' = "NewsError:failed"
               /\ elapsed' = elapsed + d /\ checked' = checked
          ELSE IF TimedOut(elapsed + d, TimeoutTenths)
          THEN /\ pc' = "done" /\ outcome' = "NewsError:timeout"
               /\ elapsed' = elapsed + d /\ checked' = elapsed + d
          ELSE /\ pc' = "poll" /\ outcome' = ""
               /\ checked' = elapsed + d
               /\ elapsed' = elapsed + d + SleepTenths + over
  /\ UNCHANGED <<envVars, dedupeVars, windowVars, extractVars, searchVars, multiVars,
                 callVars, agentVars, parseVars>>

\* The last assistant message is read: its text is returned, or NewsError
\* is raised for no message or no text.
ReadMessage ==
  /\ pc = "read"
  /\ outcome' \in {"content", "NewsError:nomessage"}
  /\ pc' = "done"
  /\ UNCHANGED <<r_status, elapsed, checked, polls>>
  /\ UNCHANGED <<envVars, dedupeVars, windowVars, extractVars, searchVars, multiVars,
                 callVars, agentVars, parseVars>>

NextRun == Poll \/ ReadMessage

SpecRun == InitRun /\ [][NextRun]_vars

\* The loop goes on running and every call of the service returns.
SpecRunLive == SpecRun /\ WF_vars(NextRun)

(***************************************************************************)
(* _ensure_agent, called again and again in one process.  An agent of the  *)
(* service is [id, name, made], made telling whether this process created  *)
(* it; no one else creates or deletes agents.                              *)
(***************************************************************************)
AGENT_NAME == "pressm-bing-agent"

\* The number of calls of _ensure_agent.
MaxCalls == 4

Agent(id, name, made) == [id |-> id, name |-> name, made |-> made]

\* The agents the service holds before the first call.
InitialAgents ==
  {<<>>,
   <<Agent(1, "other-agent", FALSE)>>,
   <<Agent(1, "other-agent", FALSE), Agent(2, AGENT_NAME, FALSE)>>,
   <<Agent(1, AGENT_NAME, FALSE), Agent(2, AGENT_NAME, FALSE)>>}

\* How a call goes: every service call succeeds ("ok"), or _project,
\* list_agents or _get_bing_tool_definitions raises, or create_agent or
\* update_agent raises without effect ("fails"), or create_agent raises
\* after the service has made the agent ("lost").  An empty MODEL_DEPLOYMENT
\* is a create that "fails".
Fates == {"ok", "project", "list", "tools", "fails", "lost"}

\* Mutant of Lookup: the listing is not searched.
LookupNone(listing) == None

\* The first agent of the listing named _AGENT_NAME, if any.
RECURSIVE Lookup(_)
Lookup(listing) ==
  IF listing = <<>> THEN None
  ELSE IF Head(listing).name = AGENT_NAME THEN Some(Head(listing))
       ELSE Lookup(Tail(listing))

\* The record of a call: the service call it made to create or update
\* ("none" when it raised before), the agent's id, whether the call
\* returned, and what the cache and the listing held when it began.
Op(op, id, ok, cached, listed) ==
  [op |-> op, id |-> id, ok |-> ok, cached |-> cached, listed |-> listed]

InitAgent ==
  /\ pc = "idle"
  /\ agent_cache = None
  /\ agents \in InitialAgents
  /\ ops = <<>>
  /\ IdleEnv /\ IdleSearch /\ IdleDedupe /\ IdleWindow /\ IdleExtract /\ IdleMulti
  /\ IdleCall /\ IdleRun /\ IdleParse

\* One call of _ensure_agent.
EnsureAgent ==
  /\ pc = "idle"
  /\ Len(ops) < MaxCalls
  /\ \E fate \in Fates :
       \* list_agents is called only while nothing is cached
       /\ fate = "list" => agent_cache = None
       /\ LET cached == agent_cache # None
              listed == \E i \in 1..Len(agents) : agents[i].name = AGENT_NAME
              found == IF agent_cache = None /\ fate \notin {"project", "list"}
                       THEN Lookup(agents) ELSE agent_cache
              fresh == Agent(Len(agents) + 1, AGENT_NAME, TRUE)
          IN IF fate \in {"project", "list", "tools"}
             THEN /\ agent_cache' = found
                  /\ agents' = agents
                  /\ ops' = Append(ops, Op("none", 0, FALSE, cached, listed))
             ELSE IF found = None
             THEN /\ agent_cache' = IF fate = "ok" THEN Some(fresh) ELSE None
                  /\ agents' = IF fate = "fails" THEN agents ELSE Append(agents, fresh)
                  /\ ops' = Append(ops, Op("create", fresh.id, fate = "ok", cached, listed))
             ELSE /\ agent_cache' = found
                  /\ agents' = agents
                  /\ ops' = Append(ops, Op("update", Val(found).id, fate = "ok", cached, listed))
  /\ pc' = "idle"
  /\ UNCHANGED <<envVars, dedupeVars, windowVars, extractVars, searchVars, multiVars,
                 callVars, runVars, parseVars>>

NextAgent == EnsureAgent

SpecAgent == InitAgent /\ [][NextAgent]_vars

(***************************************************************************)
(* search_news_multi.  A round is one call of search_news: it returns the  *)
(* list search_news makes of the array the agent answered with, or raises. *)
(***************************************************************************)
\* need = max(target_results, min(count, 50))
Need == Max(target_results, Min(count, 50))

\* Mutant of RoundCount: every variant is run.
RoundCountAll(uniq) == Len(uniq)

\* The number of rounds of uniq_rounds[:max_rounds].
RoundCount(uniq) == Min(Len(uniq), max_rounds)

\* The sort and the truncation that end search_news_multi.
Finish(items) == Take(SortReverse(items, tzLocal), Need)

\* Mutant of Caught: NewsError is let through.
CaughtButNewsError(error) == error # "NewsError"

\* except Exception, around the body of a round: every exception that
\* search_news raises is one.
Caught(error) == error \in {"NewsError", "NameError", "AttributeError"}

\* The branch of the search page's submit handler: success when the search
\* returned, else the except clause that matches the exception.
UiBranch(error) ==
  IF error = "" THEN "success"
  ELSE IF error = "NewsError" THEN "NewsError" ELSE "Exception"

\* The record of a round: the variant given to search_news and whether the
\* call raised.
Attempt(variant, raised) == [kind |-> variant.kind, q |-> variant.q, raised |-> raised]

Init ==
  /\ pc = "start"
  /\ q \in Queries
  /\ count \in Counts
  /\ target_results \in Targets
  /\ max_rounds \in RoundLimits
  /\ freshness = "Week"
  /\ now = SearchNow
  /\ tzLocal = KstOffset
  /\ rounds = <<>> /\ uniq_rounds = <<>> /\ round = 0
  /\ all_items = <<>> /\ attempted = <<>> /\ result = <<>> /\ ui = ""
  /\ IdleSearch /\ IdleDedupe /\ IdleWindow /\ IdleExtract /\ IdleService

\* The variants are planned; with none to run the empty list is returned.
Plan ==
  /\ pc = "start"
  /\ rounds' = Rounds(q)
  /\ uniq_rounds' = UniqRounds(rounds')
  /\ round' = 1
  /\ IF RoundCount(uniq_rounds') = 0
     THEN pc' = "done" /\ result' = Finish(all_items) /\ ui' = UiBranch("")
     ELSE pc' = "loop" /\ UNCHANGED <<result, ui>>
  /\ UNCHANGED <<q, count, target_results, max_rounds, all_items, attempted>>
  /\ UNCHANGED <<envVars, serviceVars, dedupeVars, windowVars, extractVars, searchVars>>

\* A round in which the agent answers with an array.  The list search_news
\* returns is merged and deduplicated; an exception it raises is logged, if
\* caught, and leaves the accumulator as it is.  After the last round, or
\* with enough items, the accumulator is sorted, cut and returned to the
\* search page.
RoundOk ==
  /\ pc = "loop"
  /\ data' \in BoundedSeq(MultiPool, MaxResp)
  /\ sn' = SearchNews(data', freshness, now, tzLocal)
  /\ all_items' = IF sn'.error = "" THEN Dedupe(all_items \o sn'.kept) ELSE all_items
  /\ attempted' = Append(attempted, Attempt(uniq_rounds[round], sn'.error # ""))
  /\ round' = round + 1
  /\ IF sn'.error # "" /\ ~Caught(sn'.error)
     THEN pc' = "done" /\ ui' = UiBranch(sn'.error) /\ UNCHANGED result
     ELSE IF (sn'.error = "" /\ Len(all_items') >= Need) \/ round = RoundCount(uniq_rounds)
     THEN pc' = "done" /\ result' = Finish(all_items') /\ ui' = UiBranch("")
     ELSE pc' = "loop" /\ UNCHANGED <<result, ui>>
  /\ UNCHANGED <<q, count, target_results, max_rounds, rounds, uniq_rounds>>
  /\ UNCHANGED <<envVars, serviceVars, dedupeVars, windowVars, extractVars>>

\* Mutant of RoundFail: the exception ends the search.
RoundFailAborts ==
  /\ pc = "loop"
  /\ data' = <<>>
  /\ sn' = Raised
  /\ attempted' = Append(attempted, Attempt(uniq_rounds[round], TRUE))
  /\ round' = round + 1
  /\ pc' = "done" /\ result' = Finish(all_items) /\ ui' = UiBranch("")
  /\ UNCHANGED <<q, count, target_results, max_rounds, rounds, uniq_rounds, all_items>>
  /\ UNCHANGED <<envVars, serviceVars, dedupeVars, windowVars, extractVars>>

\* A round whose search_news call raises before it has an array: the
\* exception is logged.
RoundFail ==
  /\ pc = "loop"
  /\ data' = <<>>
  /\ sn' = Raised
  /\ attempted' = Append(attempted, Attempt(uniq_rounds[round], TRUE))
  /\ round' = round + 1
  /\ IF ~Caught(sn'.error)
     THEN pc' = "done" /\ ui' = UiBranch(sn'.error) /\ UNCHANGED result
     ELSE IF round = RoundCount(uniq_rounds)
     THEN pc' = "done" /\ result' = Finish(all_items) /\ ui' = UiBranch("")
     ELSE pc' = "loop" /\ UNCHANGED <<result, ui>>
  /\ UNCHANGED <<q, count, target_results, max_rounds, rounds, uniq_rounds, all_items>>
  /\ UNCHANGED <<envVars, serviceVars, dedupeVars, windowVars, extractVars>>

Next == Plan \/ RoundOk \/ RoundFail

Spec == Init /\ [][Next]_vars

(***************************************************************************)
(* Properties of _dedupe.                                                  *)
(***************************************************************************)
\* The URL text with its utm parameters taken out.
WithoutUtm(u) == [base |-> u.base, qs |-> SelectSeq(u.qs, LAMBDA p : ~IsUtm(p.k))]

\* Two URL texts that differ, and only in utm parameters.
DifferOnlyInUtm(u1, u2) == u1 # u2 /\ WithoutUtm(u1) = WithoutUtm(u2)

\* The indexes of the items of s that carry key k.
Carrying(s, k) == {i \in 1..Len(s) : DedupKey(s[i]) = k}

\* The indexes of s at which a non-empty key occurs for the first time.
FirstOccurrences(s) ==
  {i \in 1..Len(s) : /\ DedupKey(s[i]) # <<>>
                     /\ \A j \in 1..(i - 1) : DedupKey(s[j]) # DedupKey(s[i])}

\* The k-th smallest element of a set of numbers.
Nth(S, k) == CHOOSE i \in S : Cardinality({j \in S : j <= i}) = k

\* C4: deduplication is idempotent: _dedupe of the output of _dedupe is
\* that output, same items in the same order.
C4_DedupeIdempotent == pc = "done" => dd_twice = dd_out

\* A list from which _dedupe removed an item and kept two gave the same
\* list again.
C4_Witness ==
  pc = "done" /\ Len(dd_out) >= 2 /\ Len(dd_out) < Len(dd_in) /\ dd_twice = dd_out

\* C5 as stated: any two items whose URLs differ only in utm parameters have
\* the same dedup key, and of the two only the one that occurs first is in
\* the output of _dedupe.
C5_UtmSameKeyAlways ==
  pc # "start" =>
    \A i, j \in 1..Len(dd_in) :
      (i < j /\ DifferOnlyInUtm(dd_in[i].url, dd_in[j].url)) =>
         /\ DedupKey(dd_in[i]) = DedupKey(dd_in[j])
         /\ Cardinality(Carrying(dd_out, DedupKey(dd_in[i]))) <= 1

\* C5 amended: two items whose URLs parse and differ only in utm parameters
\* (any letter case) have the same normalized URL; when it is not empty it
\* is the dedup key of both, and the output of _dedupe holds exactly one
\* item with that key: the first item of the input that carries it.
C5_UtmSameKey ==
  pc # "start" =>
    \A i, j \in 1..Len(dd_in) :
      (/\ i < j
       /\ DifferOnlyInUtm(dd_in[i].url, dd_in[j].url)
       /\ dd_in[i].url.base # BadBase) =>
         LET k == NormUrl(dd_in[i].url)
         IN /\ k = NormUrl(dd_in[j].url)
            /\ k # <<>> =>
                 /\ DedupKey(dd_in[i]) = k
                 /\ DedupKey(dd_in[j]) = k
                 /\ Cardinality(Carrying(dd_out, k)) = 1
                 /\ \E n \in Carrying(dd_out, k) :
                      dd_out[n] = dd_in[Nth(Carrying(dd_in, k), 1)]

\* http://a.com/x?utm_source=y followed by http://a.com/x gave only the
\* first item.
C5_Witness ==
  /\ pc = "done"
  /\ Len(dd_in) = 2
  /\ dd_in[1].url = Url("http://a.com/x", <<Param("utm_source", "y")>>)
  /\ dd_in[2].url = Url("http://a.com/x", <<>>)
  /\ dd_out = <<dd_in[1]>>

\* C6: the output of _dedupe is the input restricted, in order, to the
\* first item of each non-empty key; no item with an empty key is in it.
C6_FirstOccurrenceKept ==
  pc # "start" =>
    /\ Len(dd_out) = Cardinality(FirstOccurrences(dd_in))
    /\ \A k \in 1..Len(dd_out) : dd_out[k] = dd_in[Nth(FirstOccurrences(dd_in), k)]
    /\ \A k \in 1..Len(dd_out) : DedupKey(dd_out[k]) # <<>>

\* An input of an empty-key item and two different items with one key, of
\* which one item was kept.
C6_Witness ==
  /\ pc = "deduped"
  /\ Len(dd_in) = DedupeLen
  /\ \E i \in 1..Len(dd_in) : DedupKey(dd_in[i]) = <<>>
  /\ \E i, j \in 1..Len(dd_in) :
       i < j /\ dd_in[i] # dd_in[j] /\ DedupKey(dd_in[i]) = DedupKey(dd_in[j])
                /\ DedupKey(dd_in[i]) # <<>>
  /\ Len(dd_out) = 1

(***************************************************************************)
(* Properties of search_news and search_news_multi.                        *)
(***************************************************************************)
\* The parsed date of an item, as the host parses it.
Parsed(it) == ParseDtUtc(it.published, tzLocal)

\* In list s no item without a parsed date stands before one that has one.
UnparseableLast(s) ==
  \A i, j \in 1..Len(s) : (i < j /\ Parsed(s[j]) # None) => Parsed(s[i]) # None

\* In list s the parsed dates do not increase.
NewestFirst(s) ==
  \A i, j \in 1..Len(s) :
    (i < j /\ Parsed(s[i]) # None /\ Parsed(s[j]) # None) =>
       Val(Parsed(s[i])) >= Val(Parsed(s[j]))

\* C1 as stated: search_news given an array with items whose published text
\* is unparseable returns a list, and in the list it returns and in the list
\* search_news_multi returns every such item comes after every item with a
\* parseable one.
C1_UnparseableSortLast ==
  /\ (\E i \in 1..Len(sn.items) : Parsed(sn.items[i]) = None) => sn.error = ""
  /\ UnparseableLast(sn.kept)
  /\ pc = "done" => UnparseableLast(result)

\* C2: in the list search_news returns and in the list search_news_multi
\* returns, of two items with parseable dates the later one never comes
\* after the earlier one.
C2_ParseableNewestFirst ==
  /\ NewestFirst(sn.kept)
  /\ pc = "done" => NewestFirst(result)

\* search_news_multi returned two dated items that its accumulator held in
\* the other order, after a round in which the agent's array was not in
\* order either.
C2_Witness ==
  /\ pc = "done"
  /\ Len(result) >= 2
  /\ Parsed(result[1]) # None /\ Parsed(result[2]) # None
  /\ Val(Parsed(result[1])) > Val(Parsed(result[2]))
  /\ ~NewestFirst(all_items)
  /\ Len(data) = 2 /\ ~NewestFirst(data) /\ Len(sn.kept) = 2

\* C3: the list search_news_multi returns holds no two items with the same
\* dedup key, whatever rounds returned or raised.
C3_NoDuplicateKeys ==
  pc = "done" =>
    \A i, j \in 1..Len(result) : i # j => DedupKey(result[i]) # DedupKey(result[j])

\* A search with a round that raised and a round that returned an item
\* whose key an item of another round carried already was returned.
C3_Witness ==
  /\ pc = "done"
  /\ Len(attempted) = 3
  /\ \E i \in 1..Len(attempted) : attempted[i].raised
  /\ Len(result) >= 2
  /\ \E i \in 1..Len(sn.kept) : \E j \in 1..Len(result) :
       sn.kept[i] # result[j] /\ DedupKey(sn.kept[i]) = DedupKey(result[j])

\* The variants given to search_news are the planned ones, in order.
AttemptedArePlanned ==
  /\ Len(attempted) <= Len(uniq_rounds)
  /\ \A i \in 1..Len(attempted) :
       attempted[i].kind = uniq_rounds[i].kind /\ attempted[i].q = uniq_rounds[i].q

\* C9: for a query without a site: token the planner makes exactly two
\* candidate variants, the original and the simplified one, and the
\* site-filter-stripped variant is neither made nor run.
C9_NoSiteTwoCandidates ==
  (pc # "start" /\ \A i \in 1..Len(q) : q[i] \notin {"site:a.com", "SITE:b.com"}) =>
     /\ Len(rounds) = 2
     /\ rounds[1] = [kind |-> "original", q |-> q]
     /\ rounds[2].kind = "simplified"
     /\ \A i \in 1..Len(uniq_rounds) : uniq_rounds[i].kind # "nosite"
     /\ AttemptedArePlanned
     /\ Len(attempted) <= 2

\* A query without site: whose two variants differ was searched in two
\* rounds.
C9_Witness ==
  /\ pc = "done"
  /\ \A i \in 1..Len(q) : q[i] \notin {"site:a.com", "SITE:b.com"}
  /\ Len(rounds) = 2
  /\ Len(attempted) = 2
  /\ attempted[1].q # attempted[2].q

\* The number of times x occurs in list s.
Occurrences(s, x) == Cardinality({i \in 1..Len(s) : s[i] = x})

\* Item it has no parsed date or one inside the calendar window.
Surviving(it) ==
  \/ Parsed(it) = None
  \/ /\ KstCalendarWindow(freshness, now).start <= Val(Parsed(it))
     /\ Val(Parsed(it)) <= KstCalendarWindow(freshness, now).end

\* C10 as stated: when an item of the parsed array is undated or inside the
\* calendar window, search_news returns a list of exactly the items that are
\* undated or inside the window, each as often as the array holds it, and
\* the rolling fallback is not applied.
C10_WindowFilterExact ==
  (pc = "done" /\ \E i \in 1..Len(sn.items) : Surviving(sn.items[i])) =>
     /\ sn.error = ""
     /\ ~sn.fallback
     /\ \A i \in 1..Len(sn.kept) : Surviving(sn.kept[i])
     /\ \A i \in 1..Len(sn.items) :
          Surviving(sn.items[i]) =>
            Occurrences(sn.kept, sn.items[i]) = Occurrences(sn.items, sn.items[i])
     /\ Len(sn.items) = Len(data)

\* The lookback the labels day, week and month stand for, in days.
LookbackOf(label) ==
  CASE LowerLabel(label) = "day" -> 1
    [] LowerLabel(label) = "week" -> 7
    [] LowerLabel(label) = "month" -> 30
    [] OTHER -> 0

\* List kept holds exactly the items of list items that satisfy Keep, each
\* as often as items holds it.
ExactlyThose(kept, items, Keep(_)) ==
  /\ \A i \in 1..Len(kept) : \E j \in 1..Len(items) : kept[i] = items[j]
  /\ \A j \in 1..Len(items) :
       Occurrences(kept, items[j]) =
         IF Keep(items[j]) THEN Occurrences(items, items[j]) ELSE 0

\* The fallback of a call with one of the labels day, week, month was run.
FallbackRan ==
  pc = "done" /\ sn.fallback /\ sn.error = "" /\ LookbackOf(freshness) # 0

\* C11 as stated: when no item survives the calendar-window pass, the
\* fallback keeps exactly the items published within the last N days before
\* the current instant (N = 1 for day, 7 for week, 30 for month).
C11_FallbackWithinLastDays ==
  FallbackRan =>
    ExactlyThose(sn.kept, sn.items,
      LAMBDA it : /\ Parsed(it) # None
                  /\ Val(Parsed(it)) <= now
                  /\ now - Val(Parsed(it)) <= LookbackOf(freshness) * 86400)

\* C11 amended: the fallback runs exactly when no item survives the calendar
\* window pass, and it keeps exactly the items published no earlier than N
\* days before the current instant (N = 1 for day, 7 for week, 30 for
\* month): items older than that are not kept, items of the last N days
\* are kept though outside the calendar window, and so are items dated
\* after the current instant.
C11_FallbackNotOlderThanDays ==
  /\ (pc = "done" /\ sn.error = "") =>
       (sn.fallback <=> \A i \in 1..Len(sn.items) : ~Surviving(sn.items[i]))
  /\ FallbackRan =>
       ExactlyThose(sn.kept, sn.items,
         LAMBDA it : /\ Parsed(it) # None
                     /\ now - Val(Parsed(it)) <= LookbackOf(freshness) * 86400)

\* A week search whose items were all outside the week: the item of exactly
\* seven days ago was kept and the item a second older was not.
C11_Witness ==
  /\ FallbackRan
  /\ freshness = "Week"
  /\ Len(sn.items) = 2 /\ Len(sn.kept) = 1
  /\ now - Val(Parsed(sn.kept[1])) = 7 * 86400
  /\ \E i \in 1..2 : now - Val(Parsed(sn.items[i])) = 7 * 86400 + 1

(***************************************************************************)
(* Properties of _kst_calendar_window.                                     *)
(***************************************************************************)
\* The reading of instant t on a clock nine hours ahead of UTC.
Kst(t) == t + 9 * 3600

\* The first day of the month after that of civil date c.
NextMonthFirst(c) ==
  IF c.m = 12 THEN [y |-> c.y + 1, m |-> 1, d |-> 1]
  ELSE [y |-> c.y, m |-> c.m + 1, d |-> 1]

\* C7: for the labels day, week and month the window ends no earlier than
\* it starts, holds the current instant, and in the UTC+9 zone runs from
\* 00:00:00 of today, of the most recent Monday or of the 1st to 23:59:59 of
\* today, of the following Sunday or of the last day of the month.
C7_WindowIsCalendarUnit ==
  (pc = "done" /\ LowerLabel(freshness) \in {"day", "week", "month"}) =>
     LET s == Kst(win.start)
         e == Kst(win.end)
         today == Kst(now) \div 86400
     IN /\ win.end >= win.start
        /\ win.start <= now /\ now <= win.end
        /\ s % 86400 = 0
        /\ e % 86400 = 86399
        /\ LowerLabel(freshness) = "day" =>
             s \div 86400 = today /\ e \div 86400 = today
        /\ LowerLabel(freshness) = "week" =>
             /\ Weekday(s \div 86400) = 0
             /\ Weekday(e \div 86400) = 6
             /\ e \div 86400 = s \div 86400 + 6
        /\ LowerLabel(freshness) = "month" =>
             /\ CivilFromDays(s \div 86400) =
                  [y |-> CivilFromDays(today).y, m |-> CivilFromDays(today).m, d |-> 1]
             /\ CivilFromDays(e \div 86400 + 1) = NextMonthFirst(CivilFromDays(today))

\* The month window of a clock reading on 29 February 2024 in the UTC+9
\* zone, which is still 28 February in UTC.
C7_Witness ==
  /\ pc = "done"
  /\ freshness = "Month"
  /\ CivilFromDays(Kst(now) \div 86400) = [y |-> 2024, m |-> 2, d |-> 29]
  /\ CivilFromDays(now \div 86400) = [y |-> 2024, m |-> 2, d |-> 28]
  /\ CivilFromDays(Kst(win.end) \div 86400) = [y |-> 2024, m |-> 2, d |-> 29]

(***************************************************************************)
(* Properties of _extract_json_array.                                      *)
(***************************************************************************)
\* The text in which the array is looked for: the response without the
\* blanks around it and, when it starts with a code fence, without the
\* backticks at its ends and without its first line.
Body(txt) ==
  LET t == StripChars(txt, {" ", "\n"})
  IN IF StartsWithFence(t) THEN AfterFirstNewline(StripChars(t, {Backtick})) ELSE t

\* The pairs l < r with a "[" at l and a "]" at r.
BracketPairs(t) ==
  {p \in (1..Len(t)) \X (1..Len(t)) : p[1] < p[2] /\ t[p[1]] = "[" /\ t[p[2]] = "]"}

\* The value returned is the text from the first "[" to the last "]" of t,
\* or None when t has no bracket pair.
OutermostArray(t, value) ==
  IF BracketPairs(t) = {} THEN value = None
  ELSE /\ value # None
       /\ \E p \in BracketPairs(t) :
            /\ Val(value) = SubSeq(t, p[1], p[2])
            /\ \A i \in 1..(p[1] - 1) : t[i] # "["
            /\ \A i \in (p[2] + 1)..Len(t) : t[i] # "]"

IsWord(txt, word) == LowerText(StripChars(txt, {" ", "\n"})) = word

\* C8 as stated: "[]" is returned for the text null, and for every other
\* text the outermost bracket pair of the text without its fence, or none.
C8_OnlyNullIsEmptyArray ==
  pc = "done" =>
    IF IsWord(text, <<"n", "u", "l", "l">>)
    THEN extracted = Some(<<"[", "]">>)
    ELSE OutermostArray(Body(text), extracted)

\* C8 amended: "[]" is returned for the texts null and none, in any letter
\* case and with blanks around them; for every other text the fence and its
\* language line are dropped and the text from the first "[" to the last
\* "]" is returned, or none when there is no bracket pair.
C8_ExtractOutermostArray ==
  pc = "done" =>
    IF IsWord(text, <<"n", "u", "l", "l">>) \/ IsWord(text, <<"n", "o", "n", "e">>)
    THEN extracted = Some(<<"[", "]">>)
    ELSE OutermostArray(Body(text), extracted)

\* A fenced text with a language line, and in the fence an array between
\* other text with a "]" that is not the last, gave the text from the first
\* "[" to the last "]".
C8_Witness ==
  /\ pc = "done"
  /\ text = <<Backtick, Backtick, Backtick, "j", "s", "o", "n", "\n", "x", "[", "]",
              "x", "]", "x", "\n", Backtick, Backtick, Backtick>>
  /\ extracted = Some(<<"[", "]", "x", "]">>)

(***************************************************************************)
(* Properties of the runs and the parsing of search_news.                  *)
(***************************************************************************)
\* Both runs returned and neither text held an array.
NoArrayAfterRetry ==
  /\ pc = "done"
  /\ Len(runs) = 2 /\ ~runs[1].raised /\ ~runs[2].raised
  /\ raw_json = None

\* C12: a call makes at most two runs; the second is made, with the amended
\* prompt, exactly when the text of the first holds no array; when the text
\* of the retry holds none either, the call raises nothing and returns the
\* empty list.
C12_OneRetryThenEmpty ==
  /\ Len(runs) <= 2
  /\ Len(runs) >= 1 => runs[1].prompt = "user"
  /\ Len(runs) = 2 => /\ runs[2].prompt = "retry"
                      /\ ~runs[1].raised
                      /\ BracketPairs(Body(runs[1].raw)) = {}
                      /\ ~IsWord(runs[1].raw, <<"n", "u", "l", "l">>)
                      /\ ~IsWord(runs[1].raw, <<"n", "o", "n", "e">>)
  /\ (pc \in {"parse", "done"} /\ Len(runs) = 1 /\ ~runs[1].raised) => raw_json # None
  /\ NoArrayAfterRetry => sn.error = "" /\ sn.kept = <<>> /\ data = <<>>

\* A call whose two runs returned different texts without an array returned
\* the empty list.
C12_Witness ==
  /\ NoArrayAfterRetry
  /\ runs[1].raw # runs[2].raw
  /\ sn.error = "" /\ sn.kept = <<>>

\* C13 as stated: when the text of the retry holds no array either,
\* search_news raises NewsError.
C13_NewsErrorAfterRetry == NoArrayAfterRetry => sn.error = "NewsError"

\* The text is "[", values separated by "," and "]", blanks aside.
IsArrayText(t) ==
  LET body == SelectSeq(t, LAMBDA c : c \notin {" ", "\n"})
      n == Len(body)
  IN /\ n >= 2 /\ body[1] = "[" /\ body[n] = "]"
     /\ n = 2 \/ n % 2 = 1
     /\ \A i \in 2..(n - 1) :
          IF i % 2 = 0 THEN body[i] \in {"A", "B", "C", "1"} ELSE body[i] = ","

\* C13 amended: when every run returned, search_news raises NewsError
\* exactly when a text was extracted, from the first response or from the
\* retry's, and that text is not a JSON array; when no text was extracted
\* after the retry it raises nothing.
C13_NewsErrorOnInvalidJson ==
  (pc = "done" /\ \A i \in 1..Len(runs) : ~runs[i].raised) =>
     /\ sn.error = "NewsError" <=> (raw_json # None /\ ~IsArrayText(Val(raw_json)))
     /\ raw_json = None => Len(runs) = 2 /\ sn.error = ""

\* After a first text without an array the retry answered with "[x]", which
\* is extracted and is not JSON: NewsError was raised.
C13_Witness ==
  /\ pc = "done"
  /\ Len(runs) = 2 /\ ~runs[2].raised
  /\ raw_json = Some(<<"[", "x", "]">>)
  /\ sn.error = "NewsError"

(***************************************************************************)
(* Properties of the rounds of search_news_multi.                          *)
(***************************************************************************)
\* The number of items search_news_multi aims at: target_results, or count
\* when that is larger, count taken as 50 when it is above 50.
TargetCount ==
  LET c == IF count > 50 THEN 50 ELSE count
  IN IF target_results >= c THEN target_results ELSE c

\* List s is a list of the newest n items of list acc, or all of acc when it
\* holds fewer.
NewestOf(s, acc, n) ==
  /\ Len(s) = IF Len(acc) <= n THEN Len(acc) ELSE n
  /\ \A i \in 1..Len(s) : Occurrences(s, s[i]) = 1 /\ Occurrences(acc, s[i]) = 1
  /\ \A i \in 1..Len(s), j \in 1..Len(acc) :
       Occurrences(s, acc[j]) = 0 => Val(Parsed(acc[j])) <= Val(Parsed(s[i]))

\* C14 as stated: search_news_multi returns at most target_results items,
\* for every value of count.
C14_AtMostTargetResults == pc = "done" => Len(result) <= target_results

\* C14 amended: search_news_multi returns at most
\* max(target_results, min(count, 50)) items: the newest that many of the
\* accumulator, or all of it when it holds fewer.
C14_AtMostTargetCount ==
  pc = "done" =>
    /\ Len(result) <= TargetCount
    /\ NewestOf(result, all_items, TargetCount)

\* A search with count 1 and target_results 1 whose accumulator held two
\* items returned the newer one only.
C14_Witness ==
  /\ pc = "done"
  /\ count = 1 /\ target_results = 1
  /\ Len(all_items) = 2 /\ Len(result) = 1
  /\ Val(Parsed(result[1])) > Val(Parsed(all_items[2]))

\* The number of variants search_news_multi may run.
RoundLimit ==
  IF Len(uniq_rounds) <= max_rounds THEN Len(uniq_rounds) ELSE max_rounds

\* The step is a round of search_news_multi whose search_news call raised.
RoundRaised ==
  /\ Len(attempted') = Len(attempted) + 1
  /\ attempted'[Len(attempted')].raised

\* C15: a round that fails does not abort the search: the accumulator is
\* left as it was, the next variant is attempted when one is left within
\* the round limit, and after the last the accumulator is returned as after
\* any other round; a search that ends with fewer items than it aims at
\* has attempted every variant within the limit.
C15_FailedRoundSwallowed ==
  /\ [][RoundRaised =>
          /\ all_items' = all_items
          /\ IF Len(attempted') < RoundLimit
             THEN pc' = "loop"
             ELSE pc' = "done" /\ NewestOf(result', all_items, TargetCount)]_vars
  /\ []((pc = "done" /\ Len(all_items) < TargetCount) => Len(attempted) = RoundLimit)

\* A search of three rounds of which the second raised returned an item of
\* the first round and an item of the third.
C15_Witness ==
  /\ pc = "done"
  /\ Len(attempted) = 3
  /\ ~attempted[1].raised /\ attempted[2].raised /\ ~attempted[3].raised
  /\ Len(result) = 2 /\ Len(sn.kept) = 1
  /\ \E i \in 1..2 : result[i] = sn.kept[1]

\* The place of a variant in the order original, site-filter-stripped,
\* simplified.
Place(kind) ==
  CASE kind = "original" -> 1 [] kind = "nosite" -> 2 [] OTHER -> 3

\* The calls made so far are one per variant, of different texts, in the
\* order original, site-filter-stripped, simplified, none left out.
CallsInOrder ==
  /\ AttemptedArePlanned
  /\ \A i, j \in 1..Len(attempted) :
       i < j => /\ Place(attempted[i].kind) < Place(attempted[j].kind)
                /\ attempted[i].q # attempted[j].q

\* The step issues a search call.
CallIssued == Len(attempted') = Len(attempted) + 1

\* C20 as stated: the calls are one per distinct variant in the order
\* original, site-filter-stripped, simplified, at most max_rounds of them,
\* and none is issued once the accumulator holds target_results items.
C20_StopsAtTargetResults ==
  /\ [](CallsInOrder /\ Len(attempted) <= max_rounds)
  /\ [][CallIssued => Len(all_items) < target_results]_vars

\* C20 amended: the calls are one per distinct variant in the order
\* original, site-filter-stripped, simplified, at most max_rounds of them,
\* and none is issued once the accumulator holds
\* max(target_results, min(count, 50)) items.
C20_StopsAtTargetCount ==
  /\ [](CallsInOrder /\ Len(attempted) <= max_rounds)
  /\ [][CallIssued => Len(all_items) < TargetCount]_vars
  /\ []((pc = "done" /\ Len(attempted) < RoundLimit) => Len(all_items) >= TargetCount)

\* A search with three variants and three rounds allowed ended after its
\* second call, which brought the accumulator to the two items aimed at.
C20_Witness ==
  /\ pc = "done"
  /\ Len(uniq_rounds) = 3 /\ max_rounds = 3
  /\ Len(attempted) = 2
  /\ attempted[1].kind = "original" /\ attempted[2].kind = "nosite"
  /\ TargetCount = 2 /\ Len(all_items) = 2 /\ Len(sn.kept) = 1

(***************************************************************************)
(* The defaults of search_news for an unrecognized freshness label.        *)
(***************************************************************************)
\* The window of the call is the calendar month of the current instant in
\* the UTC+9 zone.
WindowIsMonth ==
  LET today == CivilFromDays(Kst(now) \div 86400)
  IN /\ Kst(sn.window.start) % 86400 = 0
     /\ Kst(sn.window.end) % 86400 = 86399
     /\ CivilFromDays(Kst(sn.window.start) \div 86400) = [today EXCEPT !.d = 1]
     /\ CivilFromDays(Kst(sn.window.end) \div 86400 + 1) = NextMonthFirst(today)

\* The fallback of the call kept exactly the items no older than n days.
LookbackIs(n) ==
  (sn.fallback /\ sn.error = "") =>
    ExactlyThose(sn.kept, sn.items,
      LAMBDA it : Parsed(it) # None /\ now - Val(Parsed(it)) <= n * 86400)

\* C19: for an unrecognized label search_news filters with the current
\* calendar month as window and falls back to a lookback of one day; for
\* day, week and month, in any letter case, the window is one day, seven
\* days and the month long and the lookback 1, 7 and 30 days.
C19_UnrecognizedLabelDefaults ==
  pc = "done" =>
    /\ LookbackOf(freshness) = 0 => WindowIsMonth /\ LookbackIs(1)
    /\ LookbackOf(freshness) = 1 =>
         sn.window.end - sn.window.start = 86400 - 1 /\ LookbackIs(1)
    /\ LookbackOf(freshness) = 7 =>
         sn.window.end - sn.window.start = 7 * 86400 - 1 /\ LookbackIs(7)
    /\ LookbackOf(freshness) = 30 => WindowIsMonth /\ LookbackIs(30)

\* A search with the label year on 6 March: the items of 28 and 10 February
\* were outside the window, which a week or a month would not have been,
\* and the fallback, run with one day, kept neither.
C19_Witness ==
  /\ pc = "done"
  /\ freshness = "year"
  /\ sn.fallback /\ sn.error = ""
  /\ Len(sn.items) = 2 /\ sn.kept = <<>>
  /\ \E i \in 1..2 : now - Val(Parsed(sn.items[i])) = 7 * 86400
  /\ \E i \in 1..2 : now - Val(Parsed(sn.items[i])) > 7 * 86400

(***************************************************************************)
(* Properties of _run_and_wait.                                            *)
(***************************************************************************)
\* The statuses of success and of failure, in the letter cases the service
\* reports them in.
SuccessStatuses == {"completed", "COMPLETED", "Succeeded"}
FailureStatuses == {"failed", "Cancelled", "expired"}

\* C16: after every poll: the response is read, and returned or found
\* missing, exactly when the poll read a status of success; NewsError is
\* raised for the run exactly when it read a status of failure; with any
\* other status NewsError is raised for the timeout when the time since
\* start is above the timeout, and another poll follows when it is not.
C16_PollDecides ==
  polls > 0 =>
    /\ r_status \in SuccessStatuses <=>
         (pc = "read" \/ outcome \in {"content", "NewsError:nomessage"})
    /\ r_status \in FailureStatuses <=> outcome = "NewsError:failed"
    /\ r_status \notin SuccessStatuses \cup FailureStatuses =>
         /\ checked > TimeoutTenths <=> (pc = "done" /\ outcome = "NewsError:timeout")
         /\ checked <= TimeoutTenths <=> (pc = "poll" /\ outcome = "")

\* After polls that read other statuses, one read Succeeded when the
\* timeout had passed already, and the response was returned.
C16_Witness ==
  /\ pc = "done" /\ outcome = "content"
  /\ r_status = "Succeeded"
  /\ polls >= 3
  /\ elapsed > TimeoutTenths

\* C17: the call ends, whatever statuses the polls read; a poll that finds
\* the timeout passed and no terminal status is the last one.
C17_PollLoopTerminates ==
  /\ <>(pc = "done")
  /\ [](pc = "poll" => checked <= TimeoutTenths)
  /\ [](pc = "poll" => elapsed <= TimeoutTenths + SleepTenths + 2)

\* A run that stayed in a status the loop does not know ended with the
\* timeout error at its fifth poll.
C17_Witness ==
  /\ pc = "done" /\ outcome = "NewsError:timeout"
  /\ r_status = "incomplete"
  /\ polls = 5

(***************************************************************************)
(* Properties of _ensure_agent.                                            *)
(***************************************************************************)
\* The agents named pressm-bing-agent that this process created.
CreatedHere ==
  {i \in 1..Len(agents) : agents[i].name = "pressm-bing-agent" /\ agents[i].made}

\* C18: create_agent is invoked only by a call that began with no agent
\* cached and with no agent named pressm-bing-agent in the listing; once an
\* agent is cached, by a create or a lookup, it stays the cached agent and
\* a later call invokes nothing but update_agent on it; at most one agent
\* of that name is ever created.
C18_CreateAtMostOnce ==
  /\ [](\A i \in 1..Len(ops) :
          ops[i].op = "create" => ~ops[i].cached /\ ~ops[i].listed)
  /\ [](Cardinality(CreatedHere) <= 1)
  /\ [][agent_cache # None =>
          /\ agent_cache' = agent_cache
          /\ Len(ops') = Len(ops) + 1 =>
               \/ ops'[Len(ops')].op = "none"
               \/ /\ ops'[Len(ops')].op = "update"
                  /\ ops'[Len(ops')].id = Val(agent_cache).id]_vars

\* With another agent listed, a create that raised without effect was
\* followed by a create that returned and by two updates of the agent made.
C18_Witness ==
  /\ Len(ops) = 4
  /\ Len(agents) = 2 /\ agents[1].name = "other-agent"
  /\ ops[1].op = "create" /\ ~ops[1].ok
  /\ ops[2].op = "create" /\ ops[2].ok
  /\ ops[3].op = "update" /\ ops[3].ok /\ ops[3].id = ops[2].id
  /\ ops[4].op = "update" /\ ops[4].id = ops[2].id
  /\ Cardinality(CreatedHere) = 1

(***************************************************************************)
(* Properties of _parse_dt_utc.                                            *)
(***************************************************************************)
\* C21: a published text without an offset is read in UTC: the instant
\* returned is that wall-clock reading at offset zero, whatever the zone of
\* the host.
C21_NaiveReadAsUtc ==
  pc = "done" /\ dt_str.kind = "naive"
    => parsed = Some(Instant(dt_str.wall, 0))

(***************************************************************************)
(* Properties of search_news on a text that is not JSON.                   *)
(***************************************************************************)
\* A call ended with an extracted text that is not a JSON array.
InvalidJsonExtracted ==
  /\ pc = "done"
  /\ raw_json # None
  /\ ~IsArrayText(Val(raw_json))

\* C22: when the text extracted from the response is not a JSON array,
\* search_news raises NewsError and returns no items, and no run follows
\* the one whose text was extracted: the retry was made only if the first
\* response held no bracket pair.
C22_InvalidJsonRaisesWithoutRetry ==
  InvalidJsonExtracted =>
    /\ sn.error = "NewsError" /\ sn.kept = <<>> /\ data = <<>>
    /\ OutermostArray(Body(runs[Len(runs)].raw), raw_json)
    /\ BracketPairs(Body(runs[1].raw)) # {} => Len(runs) = 1
    /\ Len(runs) = 2 => BracketPairs(Body(runs[1].raw)) = {}

\* The first response held "[A,]", which is extracted and is not JSON:
\* NewsError was raised after that one run.
C22_Witness ==
  /\ InvalidJsonExtracted
  /\ Len(runs) = 1
  /\ raw_json = Some(<<"[", "A", ",", "]">>)
  /\ sn.error = "NewsError" /\ sn.kept = <<>>

(***************************************************************************)
(* Properties of the two passes of search_news.                            *)
(***************************************************************************)
\* Item it has a parsed date outside the calendar window.
DatedOutside(it) ==
  /\ Parsed(it) # None
  /\ \/ Val(Parsed(it)) < sn.window.start
     \/ Val(Parsed(it)) > sn.window.end

\* C23: the fallback pass runs only when every item of the parsed array has
\* a parsed date outside the calendar window (or the array is empty), so it
\* keeps no item without a parsed date, and the list returned holds items
\* of the array only, none more often than the array holds it.
C23_FallbackOnlyWhenAllOutside ==
  pc = "done" =>
    /\ sn.fallback =>
         /\ \A i \in 1..Len(sn.items) : DatedOutside(sn.items[i])
         /\ sn.unparsable = <<>>
         /\ sn.dropped_due_to_window = sn.items
         /\ \A i \in 1..Len(sn.kept) : Parsed(sn.kept[i]) # None
    /\ \A i \in 1..Len(sn.kept) :
         /\ \E j \in 1..Len(sn.items) : sn.kept[i] = sn.items[j]
         /\ Occurrences(sn.kept, sn.kept[i]) <= Occurrences(sn.items, sn.kept[i])

\* The array held the same item twice and an older one, all dated outside
\* the window: the fallback ran and kept the item as often as the array
\* held it, and not the older one.
C23_Witness ==
  /\ pc = "done" /\ sn.fallback /\ sn.error = ""
  /\ Len(sn.items) = 3 /\ Len(sn.kept) = 2
  /\ sn.kept[1] = sn.kept[2]
  /\ Occurrences(sn.items, sn.kept[1]) = 2
  /\ \A i \in 1..3 : DatedOutside(sn.items[i])

(***************************************************************************)
(* Properties of search_news_multi as the search page calls it.            *)
(***************************************************************************)
\* C24: search_news_multi lets no exception of a round through, NewsError
\* included: the search always returns a list, the empty list when every
\* round raised, and the search page never ends in its NewsError branch
\* (nor in its branch for other exceptions).
C24_MultiNeverRaises ==
  /\ ui \in {"", "success"}
  /\ pc = "done" <=> ui = "success"
  /\ (pc = "done" /\ \A i \in 1..Len(attempted) : attempted[i].raised)
       => result = <<>>

\* Three rounds, each of which raised, the last one NewsError: the search
\* returned the empty list and the page took its success branch.
C24_Witness ==
  /\ pc = "done"
  /\ Len(attempted) = 3
  /\ \A i \in 1..3 : attempted[i].raised
  /\ sn.error = "NewsError"
  /\ result = <<>> /\ ui = "success"

====
